---- MODULE Spec2Model ----
(***************************************************************************)
(* A model of the campus companion front-end: the session-authenticated    *)
(* API client (request / cache / error normalization), the GraphQL client, *)
(* the load handlers of the presentation components and the meal-plan      *)
(* rendering.                                                              *)
(***************************************************************************)
EXTENDS Integers, Sequences, FiniteSets, TLC

(***************************************************************************)
(* JavaScript values.  Every value is a record with a type tag t, so that   *)
(* values of different JavaScript types can be compared.                   *)
(***************************************************************************)
Undefined == [t |-> "undefined"]

Null == [t |-> "null"]

Num(n) == [t |-> "number", n |-> n]

Str(s) == [t |-> "string", s |-> s]

Arr(v) == [t |-> "array", v |-> v]

\* JavaScript truthiness, as tested by `if (cached)`.
Truthy(x) ==
  CASE x.t = "undefined" -> FALSE
    [] x.t = "null" -> FALSE
    [] x.t = "number" -> x.n # 0
    [] x.t = "string" -> x.s # ""
    [] OTHER -> TRUE

\* Property access x[i] on a value that is not null or undefined.
Idx(x, i) ==
  IF x.t = "array" /\ i < Len(x.v) THEN x.v[i + 1] ELSE Undefined

\* x[i] throws a TypeError when x is null or undefined.
CanIndex(x) == x.t \notin {"undefined", "null"}

(***************************************************************************)
(* Completion of a call: a returned value or a thrown error.               *)
(***************************************************************************)
Return(v) == [kind |-> "return", value |-> v]

Throw(e) == [kind |-> "throw", error |-> e]

None == [kind |-> "none"]

\* new APIError(status, data)
APIError(status, data) == [name |-> "APIError", status |-> status, data |-> data]

\* A failure of the session handler or of the transport: not an APIError.
SessionError == [name |-> "SessionError"]

TypeError == [name |-> "TypeError"]

\* e.data, undefined for errors that carry no data
ErrData(e) == IF "data" \in DOMAIN e THEN e.data ELSE Undefined

(***************************************************************************)
(* Responses of the backend.                                               *)
(***************************************************************************)
QueryNotPossible == Str("Query not possible")

TimeTableDoesNotExist == Str("Time table does not exist")

NoExamData == Str("No exam data available")

OtherMessage == Str("Service not available")

Messages == {QueryNotPossible, TimeTableDoesNotExist, NoExamData, OtherMessage}

EmptyArr == Arr(<<>>)

Arr1 == Arr(<<Num(1), Num(2), Num(3)>>)

\* a response of the transport: res.status and res.data
Res(status, data) == [status |-> status, data |-> data]

(***************************************************************************)
(* requestAuthenticated: the callback run by the session handler on the    *)
(* response res of the transport.                                          *)
(***************************************************************************)
requestAuthenticatedMutant(res) ==
  IF CanIndex(res.data) /\ Idx(res.data, 0) # Num(0)
    THEN Throw(APIError(Idx(res.data, 0), Idx(res.data, 1)))
    ELSE IF res.status # Num(0)
      THEN Throw(APIError(res.status, res.data))
      ELSE Return(Idx(res.data, 1))

requestAuthenticated(res) ==
  IF res.status # Num(0)
    THEN Throw(APIError(res.status, res.data))
    ELSE IF ~CanIndex(res.data)
      THEN Throw(TypeError)
      ELSE IF Idx(res.data, 0) # Num(0)
        THEN Throw(APIError(Idx(res.data, 0), Idx(res.data, 1)))
        ELSE Return(Idx(res.data, 1))

(***************************************************************************)
(* Strings that are built by concatenation are sequences of atoms: a fixed *)
(* word, a single character or a digit.                                    *)
(***************************************************************************)
Digits == <<"0", "1", "2", "3", "4", "5", "6", "7", "8", "9">>

Digit(n) == Digits[n + 1]

\* String(n).padStart(2, '0') for 0 <= n <= 99
Pad2(n) == <<Digit(n \div 10), Digit(n % 10)>>

\* String(n) for 1000 <= n <= 9999
Year4(n) ==
  <<Digit(n \div 1000), Digit((n \div 100) % 10), Digit((n \div 10) % 10), Digit(n % 10)>>

(***************************************************************************)
(* Date objects: a calendar day and a time of day.  The model's dates lie  *)
(* in January and February 2024 (1 January 2024 is a Monday).              *)
(***************************************************************************)
Date(year, month, date, hours) ==
  [year |-> year, month |-> month, date |-> date, hours |-> hours]

Dates == {Date(2024, 0, 1, 8), Date(2024, 0, 1, 20), Date(2024, 0, 2, 8)}

DayNames == <<"Mon", "Tue", "Wed", "Thu", "Fri", "Sat", "Sun">>

MonthNames == <<"Jan", "Feb">>

DayOfYear(d) == IF d.month = 0 THEN d.date ELSE 31 + d.date

\* Date.prototype.toDateString, e.g. "Mon Jan 01 2024"
toDateString(d) ==
  <<DayNames[((DayOfYear(d) - 1) % 7) + 1], " ", MonthNames[d.month + 1], " ">>
    \o Pad2(d.date) \o <<" ">> \o Year4(d.year)

\* String(b) of a boolean, as a template literal inserts it
BoolString(b) == IF b THEN <<"true">> ELSE <<"false">>

(***************************************************************************)
(* The operations of the authenticated client and their arguments.         *)
(***************************************************************************)
KEY_GET_PERSONAL_DATA == <<"getPersonalData">>

KEY_GET_TIMETABLE == <<"getTimetable">>

KEY_GET_EXAMS == <<"getExams">>

KEY_GET_GRADES == <<"getGrades">>

KEY_GET_MENSA_PLAN == <<"getMensaPlan">>

KEY_GET_FREE_ROOMS == <<"getFreeRooms">>

KEY_GET_PARKING_DATA == <<"getCampusParkingData">>

KEY_GET_PERSONAL_LECTURERS == <<"getPersonalLecturers">>

KEY_GET_LECTURERS == <<"getLecturers">>

\* from and to of getLecturers are single characters
SingleChars == {"a", "-"}

PlainOps ==
  {"getPersonalData", "getFaculty", "getSpoName", "getExams", "getGrades",
   "getMensaPlan", "getCampusParkingData", "getPersonalLecturers", "getImprint"}

\* an invocation: the operation and its arguments
Invocations ==
  {[op |-> o] : o \in PlainOps}
    \cup {[op |-> "getTimetable", date |-> d, detailed |-> b] : d \in Dates, b \in BOOLEAN}
    \cup {[op |-> "getFreeRooms", date |-> d] : d \in Dates}
    \cup {[op |-> "getLecturers", from |-> f, to |-> t] : f \in SingleChars, t \in SingleChars}

\* every operation once, with one choice of arguments
OneOfEach ==
  {[op |-> o] : o \in PlainOps}
    \cup {[op |-> "getTimetable", date |-> Date(2024, 0, 1, 8), detailed |-> FALSE],
          [op |-> "getFreeRooms", date |-> Date(2024, 0, 1, 8)],
          [op |-> "getLecturers", from |-> "a", to |-> "-"]}

\* whether the operation goes through requestCached
IsCached(inv) == inv.op # "getImprint"

getTimetableKeyMutant(inv) ==
  KEY_GET_TIMETABLE \o <<"-">> \o toDateString(inv.date)

getTimetableKey(inv) ==
  KEY_GET_TIMETABLE \o <<"-">> \o toDateString(inv.date) \o <<"-">> \o BoolString(inv.detailed)

getFreeRoomsKey(inv) == KEY_GET_FREE_ROOMS \o <<"-">> \o toDateString(inv.date)

getLecturersKey(inv) == KEY_GET_LECTURERS \o <<"-", inv.from, "-", inv.to>>

\* the cache key an operation passes to requestCached
CacheKey(inv) ==
  CASE inv.op \in {"getPersonalData", "getFaculty", "getSpoName"} -> KEY_GET_PERSONAL_DATA
    [] inv.op = "getTimetable" -> getTimetableKey(inv)
    [] inv.op = "getExams" -> KEY_GET_EXAMS
    [] inv.op = "getGrades" -> KEY_GET_GRADES
    [] inv.op = "getMensaPlan" -> KEY_GET_MENSA_PLAN
    [] inv.op = "getFreeRooms" -> getFreeRoomsKey(inv)
    [] inv.op = "getCampusParkingData" -> KEY_GET_PARKING_DATA
    [] inv.op = "getPersonalLecturers" -> KEY_GET_PERSONAL_LECTURERS
    [] inv.op = "getLecturers" -> getLecturersKey(inv)

\* service: 'thiapp', format: 'json' and the method with its parameters
Params(inv) ==
  CASE inv.op \in {"getPersonalData", "getFaculty", "getSpoName"} -> [method |-> "persdata"]
    [] inv.op = "getTimetable" ->
         [method |-> "stpl", day |-> inv.date.date, month |-> inv.date.month + 1,
          year |-> inv.date.year, details |-> IF inv.detailed THEN 1 ELSE 0]
    [] inv.op = "getExams" -> [method |-> "exams", modus |-> "1"]
    [] inv.op = "getGrades" -> [method |-> "grades"]
    [] inv.op = "getMensaPlan" -> [method |-> "mensa"]
    [] inv.op = "getFreeRooms" ->
         [method |-> "rooms", day |-> inv.date.date, month |-> inv.date.month + 1,
          year |-> inv.date.year]
    [] inv.op = "getCampusParkingData" -> [method |-> "parking"]
    [] inv.op = "getPersonalLecturers" -> [method |-> "stpllecturers"]
    [] inv.op = "getLecturers" -> [method |-> "lecturers", from |-> inv.from, to |-> inv.to]
    [] inv.op = "getImprint" -> [method |-> "impressum"]

(***************************************************************************)
(* The response cache of the session: a key/value store without expiry.    *)
(***************************************************************************)
EmptyCache == [k \in {} |-> Undefined]

\* this.cache.get(cacheKey)
cacheGet(store, k) == IF k \in DOMAIN store THEN store[k] ELSE Undefined

\* this.cache.set(cacheKey, resp)
cacheSet(store, k, v) == [x \in DOMAIN store \cup {k} |-> IF x = k THEN v ELSE store[x]]

(***************************************************************************)
(* Personal data and the faculty / SPO extraction.                         *)
(***************************************************************************)
\* a string kept as its sequence of atoms, so that it can be split
Text(atoms) == [t |-> "text", a |-> atoms]

TextTruthy(x) == IF x.t = "text" THEN x.a # <<>> ELSE Truthy(x)

\* x.f of a value that is not null or undefined
Field(x, f) == IF x.t = "object" /\ f \in DOMAIN x THEN x[f] ELSE Undefined

\* course-short-names.json without '_source', in the order of its keys
courseShortNames ==
  <<[name |-> "Informatik", poKey |-> <<"inf">>, courses |-> {"INF", "AIB"}],
    [name |-> "Maschinenbau", poKey |-> <<"mb">>, courses |-> {"MB"}]>>

RECURSIVE SplitFrom(_, _, _)
\* the segments of atoms[i..] between "/" atoms, cur being the segment begun
SplitFrom(atoms, i, cur) ==
  IF i > Len(atoms) THEN <<cur>>
  ELSE IF atoms[i] = "/" THEN <<cur>> \o SplitFrom(atoms, i + 1, <<>>)
  ELSE SplitFrom(atoms, i + 1, Append(cur, atoms[i]))

\* url.split('/').filter((x) => x.length > 0)
SplitPath(atoms) == SelectSeq(SplitFrom(atoms, 1, <<>>), LAMBDA seg : seg # <<>>)

\* segs.slice(-3)[0], <<>> standing for undefined
ThirdFromLast(segs) ==
  IF Len(segs) = 0 THEN <<>>
  ELSE IF Len(segs) < 3 THEN segs[1] ELSE segs[Len(segs) - 2]

\* faculties.find(pred): the first faculty satisfying pred, or undefined
FindFaculty(pred(_)) ==
  LET hits == SelectSeq(courseShortNames, pred)
  IN IF Len(hits) = 0 THEN Undefined ELSE Str(hits[1].name)

extractFacultyFromPersonalData(data) ==
  LET persdata == Field(data, "persdata")
      stg == Field(persdata, "stg")
      po_url == Field(persdata, "po_url")
  IN IF ~Truthy(data) \/ ~Truthy(persdata) \/ (~TextTruthy(stg) /\ ~TextTruthy(po_url))
       THEN Return(Null)
     ELSE IF po_url.t # "text" THEN Throw(TypeError)
     ELSE LET poKey == ThirdFromLast(SplitPath(po_url.a))
              facultyMatch == FindFaculty(LAMBDA f : f.poKey = poKey)
          IN IF Truthy(facultyMatch) THEN Return(facultyMatch)
             ELSE Return(FindFaculty(LAMBDA f : stg.t = "string" /\ stg.s \in f.courses))

extractSpoFromPersonalData(data) ==
  LET persdata == Field(data, "persdata")
      po_url == Field(persdata, "po_url")
  IN IF ~Truthy(data) \/ ~Truthy(persdata) \/ ~TextTruthy(po_url)
       THEN Return(Null)
     ELSE LET split == SplitPath(po_url.a)
          IN IF Len(split) = 0 THEN Return(Undefined) ELSE Return(Text(split[Len(split)]))

PersData(stg, po_url) ==
  [t |-> "object", persdata |-> [t |-> "object", stg |-> stg, po_url |-> po_url]]

PersA ==
  PersData(Str("INF"),
           Text(<<"https:", "/", "/", "www", "/", "inf", "/", "b", "/", "spo2020", "/">>))

(***************************************************************************)
(* What an operation makes of the completion rc of its requestCached (or   *)
(* requestAuthenticated) call.                                             *)
(***************************************************************************)
Obj3(semester, holidays, timetable) ==
  [t |-> "object", semester |-> semester, holidays |-> holidays, timetable |-> timetable]

\* { timetable: [] }
EmptyTimetable == [t |-> "object", timetable |-> EmptyArr]

getTimetableCatch(e) ==
  IF ErrData(e) = QueryNotPossible \/ ErrData(e) = TimeTableDoesNotExist
    THEN Return(EmptyTimetable)
    ELSE Throw(e)

getTimetable(rc) ==
  IF rc.kind = "return"
    THEN IF CanIndex(rc.value)
           THEN Return(Obj3(Idx(rc.value, 0), Idx(rc.value, 1), Idx(rc.value, 2)))
           ELSE getTimetableCatch(TypeError)
    ELSE getTimetableCatch(rc.error)

getExamsMutant(rc) ==
  IF rc.kind = "return" THEN rc
  ELSE IF ErrData(rc.error) = NoExamData
    THEN Return(EmptyArr)
    ELSE Throw(rc.error)

getExams(rc) ==
  IF rc.kind = "return" THEN rc
  ELSE IF ErrData(rc.error) = NoExamData \/ ErrData(rc.error) = QueryNotPossible
    THEN Return(EmptyArr)
    ELSE Throw(rc.error)

getFaculty(rc) ==
  IF rc.kind = "return" THEN extractFacultyFromPersonalData(rc.value) ELSE rc

getSpoName(rc) ==
  IF rc.kind = "return" THEN extractSpoFromPersonalData(rc.value) ELSE rc

\* the completion of operation inv.op, given that of its request
Finish(inv, rc) ==
  CASE inv.op = "getTimetable" -> getTimetable(rc)
    [] inv.op = "getExams" -> getExams(rc)
    [] inv.op = "getFaculty" -> getFaculty(rc)
    [] inv.op = "getSpoName" -> getSpoName(rc)
    [] OTHER -> rc

(***************************************************************************)
(* State.                                                                  *)
(***************************************************************************)
VARIABLES
  cache,    \* this.cache of the authenticated client: key -> stored response
  calls,    \* caller -> the operation it is running, if any
  started,  \* number of operations started so far
  memo,     \* history: key -> the responses requestCached completed with
  origin,   \* history: key -> the request parameters whose response is stored
  raRes,    \* requestAuthenticated alone: the response of the transport
  raOut,    \* requestAuthenticated alone: its completion
  queries,  \* GraphQL client: slot -> the query it is running, if any
  asked,    \* GraphQL client: number of query calls so far
  answered, \* history: the queries that have been answered with data
  calendar,         \* EventsCard: useState([])
  currentFoodDays,  \* Mensa: useState(null)
  futureFoodDays,   \* Mensa: useState(null)
  currentDay,       \* Mensa: useState(0)
  futureDay,        \* Mensa: useState(0)
  week,             \* Mensa: useState(0)
  filter,           \* food filter: selectedRestaurants and showStaticMeals
  mensaLoads,       \* Mensa: load slot -> the load() call it is running, if any
  loadsStarted,     \* Mensa: number of load() calls so far
  latest,           \* history: the load() started last and how its loadFoodEntries settled
  day,              \* renderMealDay: the day to render
  rendered,         \* renderMealDay: what was rendered, if anything
  meal,                  \* renderMealEntry: the meal to render
  allergenSelection,     \* food filter: the selected allergens
  preferencesSelection,  \* food filter: the selected preferences
  mealEntry,             \* renderMealEntry: what was rendered, if anything
  facData,          \* extractFacultyFromPersonalData alone: its argument
  facOut,           \* extractFacultyFromPersonalData alone: its completion
  timer,            \* TheMatrixAnimation: whether the interval is running
  innerWidth,       \* window.innerWidth
  canvasId,         \* TheMatrixAnimation: useState(null), the id of the rendered canvas
  canvas,           \* TheMatrixAnimation: let canvas = null
  ypos,             \* TheMatrixAnimation: let ypos = null
  created,          \* history: ypos as created by Array(cols).fill(0)
  frames,           \* history: matrixAnimationFrame calls of the last tick
  lastTick,         \* history: what the last tick of the interval did
  inits             \* history: number of times a tick initialized the canvas

apiVars == <<cache, calls, started, memo, origin>>

raVars == <<raRes, raOut>>

gqlVars == <<queries, asked, answered>>

mensaVars ==
  <<currentFoodDays, futureFoodDays, currentDay, futureDay, week, filter, mensaLoads,
    loadsStarted, latest>>

pageVars == <<calendar, mensaVars>>

mealVars == <<day, rendered>>

entryVars == <<meal, allergenSelection, preferencesSelection, mealEntry>>

facultyVars == <<facData, facOut>>

matrixVars ==
  <<timer, innerWidth, canvasId, canvas, ypos, created, frames, lastTick, inits>>

\* the state of the helpers and components that are checked on their own
helperVars == <<entryVars, facultyVars, matrixVars>>

vars == <<apiVars, raVars, gqlVars, pageVars, mealVars, helperVars>>

\* everything but the state of the authenticated client
nonApiVars == <<raVars, gqlVars, pageVars, mealVars, helperVars>>

\* total number of operations started in a session of the model
MaxCalls == 2

\* the callers whose operations may overlap
Callers == {"c1", "c2"}

Idle == [pc |-> "idle"]

(***************************************************************************)
(* The remote procedure call facility (session handler and transport): it  *)
(* issues the request, and later delivers a response to the callback of    *)
(* requestAuthenticated or fails.                                          *)
(***************************************************************************)
Failure == [kind |-> "failure"]

Response(res) == [kind |-> "response", res |-> res]

Payloads == {Null, EmptyArr, Arr1, PersA}

Responses ==
  {Res(Num(0), Arr(<<Num(0), p>>)) : p \in Payloads}
    \cup {Res(Num(-112), QueryNotPossible),
          Res(Num(0), Arr(<<Num(-112), TimeTableDoesNotExist>>)),
          Res(Num(-112), NoExamData),
          Res(Num(0), Arr(<<Num(-112), OtherMessage>>))}

Deliveries == {Failure} \cup {Response(res) : res \in Responses}

\* this.sessionHandler(callback): the callback's completion, or the failure
sessionHandler(d) ==
  IF d.kind = "failure" THEN Throw(SessionError) ELSE requestAuthenticated(d.res)

(***************************************************************************)
(* requestCached                                                           *)
(***************************************************************************)
\* const cached = this.cache.get(cacheKey); if (cached) return cached
requestCachedHit(store, key) == Truthy(cacheGet(store, key))

requestCachedStoreAlways(store, key, ra) ==
  cacheSet(store, key, IF ra.kind = "return" THEN ra.value ELSE Undefined)

requestCachedStoreFirst(store, key, ra) ==
  IF ra.kind = "return" /\ ~Truthy(cacheGet(store, key))
    THEN cacheSet(store, key, ra.value)
    ELSE store

requestCachedStoreEvict(store, key, ra) ==
  IF ra.kind = "return"
    THEN cacheSet(store, key, ra.value)
    ELSE [x \in DOMAIN store \ {key} |-> store[x]]

\* const resp = await this.requestAuthenticated(params); this.cache.set(cacheKey, resp)
requestCachedStore(store, key, ra) ==
  IF ra.kind = "return" THEN cacheSet(store, key, ra.value) ELSE store

memoGet(k) == IF k \in DOMAIN memo THEN memo[k] ELSE {}

(***************************************************************************)
(* Actions of the authenticated client.                                    *)
(***************************************************************************)
\* The event loop runs one continuation at a time: a completion is handed to
\* its caller before the next event is handled.
NoneDone == \A c \in Callers : calls[c].pc # "done"

\* Callers are interchangeable: the second one is used for a call that
\* overlaps one of the first.
FirstCaller == "c1"

\* A caller starts an operation: up to the first await that has to wait.
Call(c, inv) ==
  /\ NoneDone
  /\ calls[c].pc = "idle"
  /\ c # FirstCaller => calls[FirstCaller].pc # "idle"
  /\ started < MaxCalls
  /\ started' = started + 1
  /\ IF IsCached(inv) /\ requestCachedHit(cache, CacheKey(inv))
       THEN LET rc == Return(cacheGet(cache, CacheKey(inv)))
            IN calls' = [calls EXCEPT ![c] =
                 [pc |-> "done", inv |-> inv, sent |-> 0, hit |-> TRUE,
                  rc |-> rc, out |-> Finish(inv, rc), snap |-> cache, peer |-> None]]
       ELSE calls' = [calls EXCEPT ![c] =
                 [pc |-> "awaiting", inv |-> inv, sent |-> 1, hit |-> FALSE,
                  params |-> Params(inv), snap |-> cache, peer |-> None]]
  /\ UNCHANGED <<cache, memo, origin, nonApiVars>>

\* whether caller x awaits a requestCached call under the key of inv
AwaitsSameKey(x, inv) ==
  /\ calls[x].pc = "awaiting"
  /\ IsCached(inv) /\ IsCached(calls[x].inv)
  /\ CacheKey(calls[x].inv) = CacheKey(inv)

\* The request of caller c completes with delivery d.  (peer is history: the
\* completion of an overlapping requestCached call under the same key, the
\* latest successful one when several have completed.)
Respond(c, d) ==
  /\ NoneDone
  /\ calls[c].pc = "awaiting"
  /\ LET inv == calls[c].inv
         ra == sessionHandler(d)
     IN /\ calls' = [x \in Callers |->
                 IF x = c
                   THEN [pc |-> "done", inv |-> inv, sent |-> calls[c].sent, hit |-> FALSE,
                         rc |-> ra, out |-> Finish(inv, ra), snap |-> calls[c].snap,
                         peer |-> calls[c].peer]
                   ELSE IF AwaitsSameKey(x, inv)
                     THEN [calls[x] EXCEPT !.peer =
                            IF ra.kind = "return" \/ calls[x].peer = None
                              THEN ra ELSE calls[x].peer]
                     ELSE calls[x]]
        /\ IF IsCached(inv)
             THEN /\ cache' = requestCachedStore(cache, CacheKey(inv), ra)
                  /\ IF ra.kind = "return"
                       THEN /\ memo' = cacheSet(memo, CacheKey(inv),
                                                memoGet(CacheKey(inv)) \cup {ra.value})
                            /\ origin' = cacheSet(origin, CacheKey(inv), calls[c].params)
                       ELSE UNCHANGED <<memo, origin>>
             ELSE UNCHANGED <<cache, memo, origin>>
  /\ UNCHANGED <<started, nonApiVars>>

\* The caller takes the completion of its operation.
Done(c) ==
  /\ calls[c].pc = "done"
  /\ calls' = [calls EXCEPT ![c] = Idle]
  /\ UNCHANGED <<cache, started, memo, origin, nonApiVars>>

InitApi ==
  /\ cache = EmptyCache
  /\ calls = [c \in Callers |-> Idle]
  /\ started = 0
  /\ memo = EmptyCache
  /\ origin = EmptyCache
  /\ raRes = Undefined
  /\ raOut = None

\* the GraphQL client and the pages before anything is asked or mounted
InitPages ==
  /\ queries = [sl \in {"app", "card"} |-> Idle]
  /\ asked = 0
  /\ answered = {}
  /\ calendar = EmptyArr
  /\ currentFoodDays = Null
  /\ futureFoodDays = Null
  /\ currentDay = 0
  /\ futureDay = 0
  /\ week = 0
  /\ filter = [restaurants |-> <<"IngolstadtMensa">>, static |-> FALSE]
  /\ mensaLoads = [l \in {"l1", "l2"} |-> Idle]
  /\ loadsStarted = 0
  /\ latest = [slot |-> "none", got |-> "none"]

InitMeals ==
  /\ day = [meals |-> <<>>]
  /\ rendered = None

\* no meal entry rendered, no faculty asked for, TheMatrixAnimation not mounted
InitEntry ==
  /\ meal = Null
  /\ allergenSelection = {}
  /\ preferencesSelection = {}
  /\ mealEntry = None

InitFaculty ==
  /\ facData = Undefined
  /\ facOut = None

InitMatrix ==
  /\ timer = "off"
  /\ innerWidth = 0
  /\ canvasId = Null
  /\ canvas = Null
  /\ ypos = Null
  /\ created = Null
  /\ frames = 0
  /\ lastTick = "none"
  /\ inits = 0

InitHelpers == InitEntry /\ InitFaculty /\ InitMatrix

Init == InitApi /\ InitPages /\ InitMeals /\ InitHelpers

\* Overlapping callers, every operation.
Next ==
  \/ \E c \in Callers, inv \in OneOfEach : Call(c, inv)
  \/ \E c \in Callers, d \in Deliveries : Respond(c, d)
  \/ \E c \in Callers : Done(c)

Spec == Init /\ [][Next]_vars

\* One caller, every operation with every choice of arguments.
NextKeys ==
  \/ \E inv \in Invocations : Call("c1", inv)
  \/ \E d \in Deliveries : Respond("c1", d)
  \/ Done("c1")

SpecKeys == Init /\ [][NextKeys]_vars

(***************************************************************************)
(* requestAuthenticated alone, on every shape of response.                 *)
(***************************************************************************)
Statuses == {Num(0), Num(-112), Num(-1)}

\* what data[1] may be: a payload or an error message
Seconds == Payloads \cup Messages \cup {Num(0), Str(""), Undefined}

\* old format: a status and any data; new format: status 0 and data [code, x]
AllResponses ==
  {Res(st, Arr(<<code, x>>)) : st \in Statuses, code \in Statuses, x \in Seconds}
    \cup {Res(st, m) : st \in Statuses \ {Num(0)}, m \in Messages}

AllDeliveries == {Failure} \cup {Response(res) : res \in AllResponses}

InitRequest == Init

RequestAuthenticated(d) ==
  /\ raOut = None
  /\ raRes' = d
  /\ raOut' = sessionHandler(d)
  /\ UNCHANGED <<apiVars, gqlVars, pageVars, mealVars, helperVars>>

NextRequest == \E d \in AllDeliveries : RequestAuthenticated(d)

SpecRequest == InitRequest /\ [][NextRequest]_vars

(***************************************************************************)
(* The GraphQL client.                                                     *)
(***************************************************************************)
\* total number of query calls in a run of the model
MaxQueries == 3

GqlSlots == {"app", "card"}

Stations == {"hbf", "thi"}

LocationLists == {<<>>, <<"IngolstadtMensa">>, <<"IngolstadtMensa", "Reimanns">>}

\* the query a method sends: its root field and the arguments put into it
getFoodPlan(locations) == [root |-> "food", locations |-> locations]

getBusPlan(station) == [root |-> "bus", station |-> station]

getTrainPlan(station) == [root |-> "train", station |-> station]

getParkingData == [root |-> "parking"]

getCharingStationData == [root |-> "charging"]

getCampusLifeEvents == [root |-> "clEvents"]

GqlQueries ==
  {getFoodPlan(l) : l \in LocationLists}
    \cup {getBusPlan(st) : st \in Stations}
    \cup {getTrainPlan(st) : st \in Stations}
    \cup {getParkingData, getCharingStationData, getCampusLifeEvents}

Event(id) == [t |-> "object", id |-> id]

\* response data of the endpoint
GqlData ==
  {[t |-> "object", clEvents |-> Arr(<<Event(1)>>)],
   [t |-> "object", clEvents |-> Arr(<<Event(1), Event(2), Event(3)>>)]}

\* request(GRAPHQL_ENDPOINT, query) resolves with data or rejects
GqlDeliveries == {Failure} \cup {[kind |-> "data", data |-> d] : d \in GqlData}

\* new Error('GraphQL query failed', e)
GraphQLQueryFailed == [name |-> "Error", message |-> "GraphQL query failed"]

performGraphQLQueryFromMemory(query, known) ==
  IF query \in known
    THEN [pc |-> "done", query |-> query, sent |-> 0, logged |-> 0, got |-> None,
          out |-> Return(Undefined)]
    ELSE [pc |-> "awaiting", query |-> query, sent |-> 1]

\* performGraphQLQuery up to `await request(GRAPHQL_ENDPOINT, query)`
performGraphQLQuery(query, known) == [pc |-> "awaiting", query |-> query, sent |-> 1]

performGraphQLQuerySettledRetry(q, d) ==
  IF d.kind = "data"
    THEN [pc |-> "done", query |-> q.query, sent |-> q.sent, logged |-> 0, got |-> d,
          out |-> Return(d.data)]
    ELSE IF q.sent < 2
      THEN [pc |-> "awaiting", query |-> q.query, sent |-> q.sent + 1]
      ELSE [pc |-> "done", query |-> q.query, sent |-> q.sent, logged |-> 1, got |-> d,
            out |-> Throw(GraphQLQueryFailed)]

\* performGraphQLQuery from the settling of the request on: return data, or
\* console.error(e) and throw
performGraphQLQuerySettled(q, d) ==
  IF d.kind = "data"
    THEN [pc |-> "done", query |-> q.query, sent |-> q.sent, logged |-> 0, got |-> d,
          out |-> Return(d.data)]
    ELSE [pc |-> "done", query |-> q.query, sent |-> q.sent, logged |-> 1, got |-> d,
          out |-> Throw(GraphQLQueryFailed)]

\* One continuation runs at a time: a completion is taken by its caller
\* before the next event is handled.
NothingDone ==
  /\ \A sl \in GqlSlots : queries[sl].pc # "done"
  /\ \A l \in DOMAIN mensaLoads : mensaLoads[l].pc # "done"

\* A query method is called.
GqlCall(sl, query) ==
  /\ NothingDone
  /\ queries[sl].pc = "idle"
  /\ asked < MaxQueries
  /\ asked' = asked + 1
  /\ queries' = [queries EXCEPT ![sl] = performGraphQLQuery(query, answered)]
  /\ UNCHANGED <<answered, apiVars, raVars, pageVars, mealVars, helperVars>>

\* The request of the query settles.
GqlRespond(sl, d) ==
  /\ NothingDone
  /\ queries[sl].pc = "awaiting"
  /\ queries' = [queries EXCEPT ![sl] = performGraphQLQuerySettled(queries[sl], d)]
  /\ answered' = IF d.kind = "data" THEN answered \cup {queries[sl].query} ELSE answered
  /\ UNCHANGED <<asked, apiVars, raVars, pageVars, mealVars, helperVars>>

\* The caller takes the completion of the query.
GqlDone(sl) ==
  /\ queries[sl].pc = "done"
  /\ queries' = [queries EXCEPT ![sl] = Idle]
  /\ UNCHANGED <<asked, answered, apiVars, raVars, pageVars, mealVars, helperVars>>

NextGraphQL ==
  \/ \E query \in GqlQueries : GqlCall("app", query)
  \/ \E d \in GqlDeliveries : GqlRespond("app", d)
  \/ GqlDone("app")

SpecGraphQL == Init /\ [][NextGraphQL]_vars

(***************************************************************************)
(* EventsCard: the dashboard card for CL events.                           *)
(***************************************************************************)
EventsCardLoadUnguarded(cal, q) ==
  IF q.out.kind = "return"
    THEN [calendar |-> Field(q.out.value, "clEvents"), logged |-> 0, load |-> Return(Undefined)]
    ELSE [calendar |-> Undefined, logged |-> 0, load |-> q.out]

\* load() of EventsCard from the settling of getCampusLifeEvents on: the new
\* calendar, the number of console.error calls and the completion of load()
EventsCardLoad(cal, q) ==
  IF q.out.kind = "return"
    THEN IF CanIndex(q.out.value)
           THEN [calendar |-> Field(q.out.value, "clEvents"), logged |-> 0,
                 load |-> Return(Undefined)]
           ELSE [calendar |-> cal, logged |-> 1, load |-> Return(Undefined)]
    ELSE [calendar |-> cal, logged |-> 1, load |-> Return(Undefined)]

\* The effect of EventsCard runs: load() calls getCampusLifeEvents.
EventsCardEffect == GqlCall("card", getCampusLifeEvents)

\* The query of load() settles and load() runs to its end.
EventsCardSettle(d) ==
  /\ NothingDone
  /\ queries["card"].pc = "awaiting"
  /\ LET q == performGraphQLQuerySettled(queries["card"], d)
         h == EventsCardLoad(calendar, q)
     IN /\ queries' = [queries EXCEPT !["card"] =
                 [pc |-> "done", query |-> q.query, sent |-> q.sent, got |-> d,
                  out |-> q.out, logged |-> q.logged, cardLogged |-> h.logged,
                  load |-> h.load]]
        /\ calendar' = h.calendar
  /\ answered' = IF d.kind = "data" THEN answered \cup {queries["card"].query} ELSE answered
  /\ UNCHANGED <<asked, apiVars, raVars, mensaVars, mealVars, helperVars>>

(***************************************************************************)
(* Mensa: the load() of the meal-plan page.                                *)
(***************************************************************************)
\* total number of load() calls of the meal-plan page in a run of the model
MaxLoads == 2

LoadSlots == {"l1", "l2"}

\* Load slots are interchangeable: the second one is used for a load that
\* overlaps one of the first.
FirstLoad == "l1"

Filters ==
  {[restaurants |-> r, static |-> st] :
     r \in {<<"IngolstadtMensa">>, <<"IngolstadtMensa", "Reimanns">>}, st \in BOOLEAN}

\* getAdjustedDay(new Date()).getDay() - 1: the index of a weekday
Todays == 0 .. 4

FoodDay(i, f) == [t |-> "object", timestamp |-> i, filter |-> f]

\* the food entries of a selection: three days for one restaurant, seven for two
FoodEntries(f) ==
  Arr([i \in 1 .. (IF Len(f.restaurants) = 1 THEN 3 ELSE 7) |-> FoodDay(i, f)])

\* loadFoodEntries(selectedRestaurants, showStaticMeals) resolves or rejects
FoodDeliveries == {"resolve", "reject"}

\* a.slice(from, to) of an array
Slice(a, from, to) ==
  Arr(SubSeq(a.v, from + 1, IF to < Len(a.v) THEN to ELSE Len(a.v)))

MensaLoadUnguarded(ui, f, d, today) ==
  IF d = "resolve"
    THEN [currentFoodDays |-> Slice(FoodEntries(f), 0, 5),
          futureFoodDays |-> Slice(FoodEntries(f), 5, Len(FoodEntries(f).v)),
          currentDay |-> today, logged |-> 0, load |-> Return(Undefined)]
    ELSE [currentFoodDays |-> Undefined, futureFoodDays |-> Undefined,
          currentDay |-> today, logged |-> 0, load |-> Throw(TypeError)]

\* load() of Mensa from the settling of loadFoodEntries on: the new state, the
\* number of console.error calls and the completion of load()
MensaLoad(ui, f, d, today) ==
  IF d = "resolve"
    THEN LET days == FoodEntries(f)
         IN [currentFoodDays |-> Slice(days, 0, 5),
             futureFoodDays |-> Slice(days, 5, Len(days.v)),
             currentDay |-> today, logged |-> 0, load |-> Return(Undefined)]
    ELSE [currentFoodDays |-> ui.currentFoodDays, futureFoodDays |-> ui.futureFoodDays,
          currentDay |-> ui.currentDay, logged |-> 1, load |-> Return(Undefined)]

\* ready={currentFoodDays && futureFoodDays} of the ReactPlaceholder
Ready == Truthy(currentFoodDays) /\ Truthy(futureFoodDays)

\* The effect of Mensa runs, at mount or when the food filter or the router
\* changes: load() calls loadFoodEntries with the selection f.
MensaEffect(l, f) ==
  /\ NothingDone
  /\ mensaLoads[l].pc = "idle"
  /\ l # FirstLoad => mensaLoads[FirstLoad].pc # "idle"
  /\ loadsStarted < MaxLoads
  /\ loadsStarted' = loadsStarted + 1
  /\ filter' = f
  /\ mensaLoads' = [mensaLoads EXCEPT ![l] = [pc |-> "pending", filter |-> f]]
  /\ latest' = [slot |-> l, got |-> "pending"]
  /\ UNCHANGED <<currentFoodDays, futureFoodDays, currentDay, futureDay, week, calendar,
                 apiVars, raVars, gqlVars, mealVars, helperVars>>

\* loadFoodEntries of load slot l settles and load() runs to its end.
MensaLoadSettle(l, d, today) ==
  /\ NothingDone
  /\ mensaLoads[l].pc = "pending"
  /\ LET ui == [currentFoodDays |-> currentFoodDays, futureFoodDays |-> futureFoodDays,
                currentDay |-> currentDay]
         h == MensaLoad(ui, mensaLoads[l].filter, d, today)
     IN /\ currentFoodDays' = h.currentFoodDays
        /\ futureFoodDays' = h.futureFoodDays
        /\ currentDay' = h.currentDay
        /\ mensaLoads' = [mensaLoads EXCEPT ![l] =
             [pc |-> "done", filter |-> mensaLoads[l].filter, got |-> d,
              logged |-> h.logged, load |-> h.load]]
  /\ latest' = IF latest.slot = l THEN [slot |-> l, got |-> d] ELSE latest
  /\ UNCHANGED <<futureDay, week, filter, loadsStarted, calendar,
                 apiVars, raVars, gqlVars, mealVars, helperVars>>

\* load() of load slot l is over.
MensaLoadDone(l) ==
  /\ mensaLoads[l].pc = "done"
  /\ mensaLoads' = [mensaLoads EXCEPT ![l] = Idle]
  /\ UNCHANGED <<currentFoodDays, futureFoodDays, currentDay, futureDay, week, filter,
                 loadsStarted, latest, calendar, apiVars, raVars, gqlVars, mealVars, helperVars>>

NextPages ==
  \/ EventsCardEffect
  \/ \E d \in GqlDeliveries : EventsCardSettle(d)
  \/ GqlDone("card")
  \/ \E l \in LoadSlots, f \in Filters : MensaEffect(l, f)
  \/ \E l \in LoadSlots, d \in FoodDeliveries, today \in Todays : MensaLoadSettle(l, d, today)
  \/ \E l \in LoadSlots : MensaLoadDone(l)

SpecPages == Init /\ [][NextPages]_vars

(***************************************************************************)
(* Mensa: the week selector and the day tabs.                              *)
(***************************************************************************)
\* disabled={week === 0} of the previous-week button
prevWeekDisabled(w) == w = 0

\* disabled={week === 1} of the next-week button
nextWeekDisabled(w) == w = 1

\* idx.toString() for 0 <= idx <= 99
idxToString(idx) == IF idx < 10 THEN <<Digit(idx)>> ELSE Pad2(idx)

DigitValue(c) == CHOOSE n \in 0 .. 9 : Digit(n) = c

RECURSIVE parseIntFrom(_, _, _)
parseIntFrom(key, i, acc) ==
  IF i > Len(key) THEN acc ELSE parseIntFrom(key, i + 1, 10 * acc + DigitValue(key[i]))

\* parseInt(key) of a string of digits
parseInt(key) == parseIntFrom(key, 1, 0)

\* the indices idx of foodEntries.map((child, idx) => ...), none when foodEntries is null
TabIndices(foodEntries) ==
  IF foodEntries.t = "array" THEN 0 .. (Len(foodEntries.v) - 1) ELSE {}

\* the two WeekTab elements: 0 shows currentFoodDays, 1 shows futureFoodDays
WeekTabs == {0, 1}

WeekTabEntries(tab) == IF tab = 0 THEN currentFoodDays ELSE futureFoodDays

WeekTabSetIndexBoth(ui, tab, idx) ==
  [ui EXCEPT !.currentDay = idx, !.futureDay = idx]

\* setIndex(idx) of a WeekTab: setCurrentDay for the first, setFutureDay for the second
WeekTabSetIndex(ui, tab, idx) ==
  IF tab = 0 THEN [ui EXCEPT !.currentDay = idx] ELSE [ui EXCEPT !.futureDay = idx]

DayState == [currentDay |-> currentDay, futureDay |-> futureDay]

\* The previous-week button is pressed: onClick={() => setWeek(0)}.
PrevWeekClick ==
  /\ ~prevWeekDisabled(week)
  /\ week' = 0
  /\ UNCHANGED <<currentFoodDays, futureFoodDays, currentDay, futureDay, filter, mensaLoads,
                 loadsStarted, latest, calendar, apiVars, raVars, gqlVars, mealVars,
                 helperVars>>

\* The next-week button is pressed: onClick={() => setWeek(1)}.
NextWeekClick ==
  /\ ~nextWeekDisabled(week)
  /\ week' = 1
  /\ UNCHANGED <<currentFoodDays, futureFoodDays, currentDay, futureDay, filter, mensaLoads,
                 loadsStarted, latest, calendar, apiVars, raVars, gqlVars, mealVars,
                 helperVars>>

\* The user swipes to the other week: onChangeIndex={(idx) => setWeek(idx)}.
WeekSwipe(idx) ==
  /\ Ready
  /\ idx # week
  /\ week' = idx
  /\ UNCHANGED <<currentFoodDays, futureFoodDays, currentDay, futureDay, filter, mensaLoads,
                 loadsStarted, latest, calendar, apiVars, raVars, gqlVars, mealVars,
                 helperVars>>

\* A day is picked in the Nav of the visible WeekTab:
\* onSelect={(key) => setIndex(parseInt(key))}, key being an eventKey idx.toString().
WeekTabSelect(tab, key) ==
  /\ Ready
  /\ tab = week
  /\ \E idx \in TabIndices(WeekTabEntries(tab)) : key = idxToString(idx)
  /\ LET ui == WeekTabSetIndex(DayState, tab, parseInt(key))
     IN /\ currentDay' = ui.currentDay
        /\ futureDay' = ui.futureDay
  /\ UNCHANGED <<currentFoodDays, futureFoodDays, week, filter, mensaLoads,
                 loadsStarted, latest, calendar, apiVars, raVars, gqlVars, mealVars,
                 helperVars>>

\* The user swipes to another day of the visible WeekTab:
\* onChangeIndex={(idx) => setIndex(idx)}.
WeekTabSwipe(tab, idx) ==
  /\ Ready
  /\ tab = week
  /\ idx \in TabIndices(WeekTabEntries(tab))
  /\ idx # (IF tab = 0 THEN currentDay ELSE futureDay)
  /\ LET ui == WeekTabSetIndex(DayState, tab, idx)
     IN /\ currentDay' = ui.currentDay
        /\ futureDay' = ui.futureDay
  /\ UNCHANGED <<currentFoodDays, futureFoodDays, week, filter, mensaLoads,
                 loadsStarted, latest, calendar, apiVars, raVars, gqlVars, mealVars,
                 helperVars>>

\* all string keys a Nav can report in the model
EventKeys == {idxToString(idx) : idx \in 0 .. 9}

NextWeek ==
  \/ \E f \in Filters : MensaEffect(FirstLoad, f)
  \/ \E d \in FoodDeliveries, today \in Todays : MensaLoadSettle(FirstLoad, d, today)
  \/ MensaLoadDone(FirstLoad)
  \/ PrevWeekClick
  \/ NextWeekClick
  \/ \E idx \in WeekTabs : WeekSwipe(idx)
  \/ \E tab \in WeekTabs, key \in EventKeys : WeekTabSelect(tab, key)
  \/ \E tab \in WeekTabs, idx \in 0 .. 9 : WeekTabSwipe(tab, idx)

SpecWeek == Init /\ [][NextWeek]_vars

(***************************************************************************)
(* Mensa: renderMealDay.                                                   *)
(***************************************************************************)
\* largest number of meals of a day in the model
MaxMeals == 2

Restaurants == {"IngolstadtMensa", "NeuburgMensa", "Reimanns", "Canisius", "Other"}

\* a category is a string, kept as its sequence of words
Categories == {<<"main">>, <<"soup">>, <<"salad">>}

Meal(id, restaurant, category) ==
  [id |-> id, restaurant |-> restaurant, category |-> category]

\* the days of at most MaxMeals meals; the id of a meal is its position
MealDays ==
  UNION {{[meals |-> [i \in 1 .. n |-> Meal(i, rs[i], cs[i])]] :
            rs \in [1 .. n -> Restaurants], cs \in [1 .. n -> Categories]} :
         n \in 0 .. MaxMeals}

\* x.category.includes(word)
Includes(category, word) == \E i \in 1 .. Len(category) : category[i] = word

\* a ListGroup under a kind header, rendered when it has meals
KindList(kind, meals) ==
  IF Len(meals) > 0 THEN <<[kind |-> kind, meals |-> meals]>> ELSE <<>>

\* the block of a restaurant, rendered when the restaurant has meals
Section(header, all, lists) ==
  IF Len(all) > 0 THEN <<[header |-> header, lists |-> lists]>> ELSE <<>>

renderMealDay(d) ==
  LET mensa == SelectSeq(d.meals, LAMBDA x : x.restaurant = "IngolstadtMensa")
      mensaSoups == SelectSeq(mensa, LAMBDA x : Includes(x.category, "soup"))
      mensaFood == SelectSeq(mensa, LAMBDA x : ~Includes(x.category, "soup"))
      neuburg == SelectSeq(d.meals, LAMBDA x : x.restaurant = "NeuburgMensa")
      neuburgFood == SelectSeq(neuburg, LAMBDA x : ~Includes(x.category, "soup"))
      reimanns == SelectSeq(d.meals, LAMBDA x : x.restaurant = "Reimanns")
      reimannsFood == SelectSeq(reimanns, LAMBDA x : ~Includes(x.category, "salad"))
      reimannsSalad == SelectSeq(reimanns, LAMBDA x : Includes(x.category, "salad"))
      canisius == SelectSeq(d.meals, LAMBDA x : x.restaurant = "Canisius")
      canisiusSalads == SelectSeq(canisius, LAMBDA x : Includes(x.category, "salad"))
      canisiusFood == SelectSeq(canisius, LAMBDA x : ~Includes(x.category, "salad"))
      noData == Len(mensa) = 0 /\ Len(reimanns) = 0 /\ Len(canisius) = 0 /\ Len(neuburg) = 0
  IN [sections |->
        Section("IngolstadtMensa", mensa,
                KindList("meals", mensaFood) \o KindList("soups", mensaSoups))
          \o Section("NeuburgMensa", neuburg, KindList("meals", neuburgFood))
          \o Section("Reimanns", reimanns,
                     KindList("meals", reimannsFood) \o KindList("salads", reimannsSalad))
          \o Section("Canisius", canisius,
                     KindList("meals", canisiusFood) \o KindList("salads", canisiusSalads)),
      noData |-> noData]

\* A day tab is rendered.
RenderMealDay ==
  /\ rendered = None
  /\ rendered' = renderMealDay(day)
  /\ UNCHANGED <<day, apiVars, raVars, gqlVars, pageVars, helperVars>>

InitMealDay ==
  /\ InitApi
  /\ InitPages
  /\ day \in MealDays
  /\ rendered = None
  /\ InitHelpers

NextMeals == RenderMealDay

SpecMeals == InitMealDay /\ [][NextMeals]_vars

(***************************************************************************)
(* Mensa: showMatch and the badges of renderMealEntry.                     *)
(***************************************************************************)
\* allergen codes and flags a meal can carry
Allergens == {"A", "G"}

Flags == {"V", "veg"}

\* a list of codes, as in meal.allergens and meal.flags
CodeList(codes) == [t |-> "list", s |-> codes]

\* a meal: allergens and flags are lists of codes, or null when unknown
MealEntries ==
  {[t |-> "object", allergens |-> a, flags |-> f] :
     a \in {Null} \cup {CodeList(x) : x \in SUBSET Allergens},
     f \in {Null} \cup {CodeList(x) : x \in SUBSET Flags}}

\* whether the meal carries an allergen that the user has selected
containsSelectedAllergen(allergens, selection) ==
  IF allergens.t # "list" THEN FALSE ELSE \E x \in allergens.s : x \in selection

\* whether the meal carries a flag that the user has selected as a preference
containsSelectedPreference(flags, selection) ==
  IF flags.t # "list" THEN FALSE ELSE \E x \in flags.s : x \in selection

showMatchMutant(m, allergens, preferences) ==
  ~containsSelectedAllergen(m.allergens, allergens) /\
    containsSelectedPreference(m.flags, preferences)

showMatch(m, allergens, preferences) ==
  (~containsSelectedAllergen(m.allergens, allergens) /\
     containsSelectedPreference(m.flags, preferences)) \/
  containsSelectedAllergen(m.allergens, allergens)

\* the indicator of renderMealEntry: the warn badge, the match badge, the <br />
renderMealEntry(m, allergens, preferences) ==
  [warn |-> containsSelectedAllergen(m.allergens, allergens),
   match |-> ~containsSelectedAllergen(m.allergens, allergens) /\
             containsSelectedPreference(m.flags, preferences),
   br |-> showMatch(m, allergens, preferences),
   showMatch |-> showMatch(m, allergens, preferences)]

RenderMealEntry ==
  /\ mealEntry = None
  /\ mealEntry' = renderMealEntry(meal, allergenSelection, preferencesSelection)
  /\ UNCHANGED <<meal, allergenSelection, preferencesSelection, facultyVars, matrixVars,
                 apiVars, raVars, gqlVars, pageVars, mealVars>>

InitMealEntry ==
  /\ InitApi
  /\ InitPages
  /\ InitMeals
  /\ meal \in MealEntries
  /\ allergenSelection \in SUBSET Allergens
  /\ preferencesSelection \in SUBSET Flags
  /\ mealEntry = None
  /\ InitFaculty
  /\ InitMatrix

NextEntry == RenderMealEntry

SpecEntry == InitMealEntry /\ [][NextEntry]_vars

(***************************************************************************)
(* extractFacultyFromPersonalData on its own.                              *)
(***************************************************************************)
\* persdata.stg: missing, empty, or a course short name
Stgs == {Undefined, Str(""), Str("INF"), Str("MB"), Str("XX")}

\* persdata.po_url: missing, null, empty, or a path
PoUrls ==
  {Undefined, Null, Text(<<>>), Text(<<"/">>),
   Text(<<"https:", "/", "/", "www", "/", "inf", "/", "b", "/", "spo2020", "/">>),
   Text(<<"https:", "/", "/", "www", "/", "inf", "/", "b", "/", "spo2020">>),
   Text(<<"https:", "/", "/", "www", "/", "mb", "/", "b", "/", "spo2020", "/">>),
   Text(<<"https:", "/", "/", "www", "/", "xx", "/", "b", "/", "spo2020", "/">>),
   Text(<<"www", "/", "/", "/", "mb", "/", "m", "/", "/", "spo2019">>),
   Text(<<"inf", "/", "b">>),
   Text(<<"spo2020">>)}

\* the personal data payloads handed to extractFacultyFromPersonalData
FacultyInputs ==
  {Undefined, Null, [t |-> "object"], [t |-> "object", persdata |-> Null]} \cup
  {PersData(stg, po_url) : stg \in Stgs, po_url \in PoUrls}

ExtractFaculty ==
  /\ facOut = None
  /\ facOut' = extractFacultyFromPersonalData(facData)
  /\ UNCHANGED <<facData, entryVars, matrixVars, apiVars, raVars, gqlVars, pageVars,
                 mealVars>>

InitFacultyInputs ==
  /\ InitApi
  /\ InitPages
  /\ InitMeals
  /\ InitEntry
  /\ InitMatrix
  /\ facData \in FacultyInputs
  /\ facOut = None

NextFaculty == ExtractFaculty

SpecFaculty == InitFacultyInputs /\ [][NextFaculty]_vars

(***************************************************************************)
(* TheMatrixAnimation.                                                     *)
(***************************************************************************)
\* const x = ind * 20; Math.floor(canvas.width / 20)
ColumnWidth == 20

\* ypos[ind] = y + 20
RowHeight == 20

\* y > 100 + Math.random() * 10000
ResetFloor == 100

RandomSpan == 10000

\* for (let i = 0; i < 300; i++)
WarmUpFrames == 300

\* Math.random() takes the values k / RandomGrid, 0 <= k < RandomGrid
RandomGrid == 2

\* window.innerWidth when the canvas is set up
Widths == {10, 25}

\* y > 100 + Math.random() * 10000, for Math.random() = k / RandomGrid
ResetsAt(y, k) == y * RandomGrid > ResetFloor * RandomGrid + k * RandomSpan

matrixAnimationColumnMutant(y) ==
  {IF y >= ResetFloor THEN 0 ELSE y + RowHeight : k \in 0 .. (RandomGrid - 1)}

\* the callback of ypos.forEach: the values ypos[ind] can get for ypos[ind] = y
matrixAnimationColumn(y) ==
  {IF ResetsAt(y, k) THEN 0 ELSE y + RowHeight : k \in 0 .. (RandomGrid - 1)}

RECURSIVE matrixAnimationFrame(_)
\* matrixAnimationFrame(canvas, ctx, ypos): the arrays ypos can become, each
\* column drawing its own random number
matrixAnimationFrame(cols) ==
  IF cols = <<>> THEN {<<>>}
  ELSE {<<y>> \o rest : y \in matrixAnimationColumn(Head(cols)),
                        rest \in matrixAnimationFrame(Tail(cols))}

RECURSIVE ColumnAfter(_, _)
\* the values a column can have n frames after having one of the values ys
\* (n frames are n \div 2 frames and then the rest; the test on the cardinality
\* has the set of values enumerated before the remaining frames are applied)
ColumnAfter(ys, n) ==
  IF n = 0 THEN ys
  ELSE IF n = 1 THEN UNION {matrixAnimationColumn(y) : y \in ys}
  ELSE LET half == ColumnAfter(ys, n \div 2)
       IN IF Cardinality(half) >= 0 THEN ColumnAfter(half, n - (n \div 2)) ELSE {}

RECURSIVE ArraysOf(_, _)
\* the arrays of n entries taken from ys
ArraysOf(ys, n) ==
  IF n = 0 THEN {<<>>}
  ELSE {<<y>> \o rest : y \in ys, rest \in ArraysOf(ys, n - 1)}

\* Array(cols).fill(0)
Zeros(n) == [i \in 1 .. n |-> 0]

\* Math.floor(canvas.width / 20) + 1
Columns(width) == (width \div ColumnWidth) + 1

\* The effect runs at mount: the id is drawn, setCanvasId(id) is called and the
\* interval is started with canvas, ctx and ypos null.
MatrixMount(w) ==
  /\ timer = "off"
  /\ timer' = "on"
  /\ innerWidth' = w
  /\ UNCHANGED <<canvasId, canvas, ypos, created, frames, lastTick, inits,
                 entryVars, facultyVars, apiVars, raVars, gqlVars, pageVars, mealVars>>

\* React renders again after setCanvasId(id): <canvas id={canvasId} /> gets its id.
MatrixRender ==
  /\ timer = "on"
  /\ canvasId = Null
  /\ canvasId' = Str("id")
  /\ UNCHANGED <<timer, innerWidth, canvas, ypos, created, frames, lastTick, inits,
                 entryVars, facultyVars, apiVars, raVars, gqlVars, pageVars, mealVars>>

\* document.getElementById(id)
getElementById == IF canvasId = Null THEN Null ELSE [t |-> "object", id |-> canvasId]

\* The interval fires: the callback of setInterval.
MatrixTick ==
  /\ timer = "on"
  /\ IF ~Truthy(canvas)
       THEN IF ~Truthy(getElementById)
              THEN /\ lastTick' = "idle"
                   /\ frames' = 0
                   /\ UNCHANGED <<canvas, ypos, created, inits>>
              ELSE /\ canvas' = [t |-> "object", id |-> canvasId, width |-> innerWidth]
                   /\ created' = Arr(Zeros(Columns(innerWidth)))
                   /\ \E cols \in ArraysOf(ColumnAfter({0}, WarmUpFrames + 1),
                                           Columns(innerWidth)) :
                        ypos' = Arr(cols)
                   /\ frames' = WarmUpFrames + 1
                   /\ inits' = inits + 1
                   /\ lastTick' = "init"
       ELSE /\ \E cols \in matrixAnimationFrame(ypos.v) : ypos' = Arr(cols)
            /\ frames' = 1
            /\ lastTick' = "frame"
            /\ UNCHANGED <<canvas, created, inits>>
  /\ UNCHANGED <<timer, innerWidth, canvasId,
                 entryVars, facultyVars, apiVars, raVars, gqlVars, pageVars, mealVars>>

NextMatrix ==
  \/ \E w \in Widths : MatrixMount(w)
  \/ MatrixRender
  \/ MatrixTick

SpecMatrix == Init /\ [][NextMatrix]_vars

(***************************************************************************)
(* Properties of the authenticated client.                                 *)
(***************************************************************************)

\* C1: requestAuthenticated turns both status encodings into an APIError: a
\* response with status # 0 fails with APIError(status, data); otherwise one
\* with data[0] # 0 fails with APIError(data[0], data[1]); otherwise data[1]
\* is returned.  It succeeds iff status = 0 and data[0] = 0, and the old
\* format wins when both signal an error.
C1_StatusNormalized ==
  (raOut # None /\ raRes.kind = "response") =>
    LET res == raRes.res
        data0 == res.data.v[1]
        data1 == res.data.v[2]
    IN /\ res.status # Num(0) => raOut = Throw(APIError(res.status, res.data))
       /\ (res.status = Num(0) /\ data0 # Num(0)) => raOut = Throw(APIError(data0, data1))
       /\ (res.status = Num(0) /\ data0 = Num(0)) => raOut = Return(data1)
       /\ raOut.kind = "return" <=> (res.status = Num(0) /\ data0 = Num(0))

\* a response in which both encodings signal an error has been handled
C1_Witness ==
  /\ raOut # None
  /\ raRes.kind = "response"
  /\ raRes.res.status # Num(0)
  /\ raRes.res.data.t = "array"
  /\ raRes.res.data.v[1] \notin {Num(0), raRes.res.status}
  /\ raOut = Throw(APIError(raRes.res.status, raRes.res.data))

\* caller c starts an operation in this step
Starts(c) == calls[c].pc = "idle" /\ calls'[c].pc # "idle"

\* the request of caller c completes in this step
Completes(c) == calls[c].pc = "awaiting" /\ calls'[c].pc = "done"

\* C2 (as claimed): once requestCached(k, p) has completed successfully with
\* response r, whatever r is, every later requestCached(k, p') returns r and
\* issues no remote request.
C2_Memoized ==
  [][\A c \in Callers :
       (Starts(c) /\ IsCached(calls'[c].inv)) =>
         \A r \in memoGet(CacheKey(calls'[c].inv)) :
           /\ calls'[c].pc = "done"
           /\ calls'[c].rc = Return(r)
           /\ calls'[c].sent = 0]_vars

\* C3: a failing requestCached (an APIError of either encoding, or a failure
\* of the session handler or transport) writes nothing: the cache is what it
\* was, the error is the completion of requestCached, and with the cache as
\* it was when the call began the key is still a miss, on which a call issues
\* a new remote request.
C3_FailureLeavesCache ==
  [][\A c \in Callers :
       /\ (Completes(c) /\ IsCached(calls[c].inv) /\ calls'[c].rc.kind = "throw") =>
            /\ cache' = cache
            /\ calls'[c].rc.error.name \in {"APIError", "SessionError"}
            /\ cache = calls[c].snap =>
                 /\ cache' = calls[c].snap
                 /\ ~Truthy(cacheGet(cache', CacheKey(calls[c].inv)))
       /\ (Starts(c) /\ IsCached(calls'[c].inv)
             /\ ~Truthy(cacheGet(cache, CacheKey(calls'[c].inv)))) =>
            /\ calls'[c].pc = "awaiting"
            /\ calls'[c].sent = 1
            /\ calls'[c].params = Params(calls'[c].inv)]_vars

\* a requestCached call has failed, the cache being what it was at its start
C3_Witness ==
  \E c \in Callers :
    /\ calls[c].pc = "done"
    /\ IsCached(calls[c].inv)
    /\ calls[c].rc.kind = "throw"
    /\ calls[c].rc.error.name = "APIError"
    /\ calls[c].sent = 1
    /\ started = MaxCalls
    /\ cache = calls[c].snap

\* C4: the cache has no expiry or eviction: its set of keys only grows, and an
\* entry is written only by a successful requestCached under that key, with
\* the response it returns.
C4_CacheOnlyGrows ==
  [][/\ DOMAIN cache \subseteq DOMAIN cache'
     /\ \A k \in DOMAIN cache' :
          (k \notin DOMAIN cache \/ cache'[k] # cache[k]) =>
            \E c \in Callers :
              /\ Completes(c)
              /\ IsCached(calls[c].inv)
              /\ CacheKey(calls[c].inv) = k
              /\ calls'[c].rc = Return(cache'[k])]_vars

\* an operation has failed and one has returned from the cache while the cache
\* holds entries
C4_Witness ==
  /\ Cardinality(DOMAIN cache) >= 1
  /\ \E c \in Callers : calls[c].pc = "done" /\ calls[c].rc.kind = "throw"

\* whether the request of a completed operation failed with one of these data
FailedWith(r, msgs) == r.rc.kind = "throw" /\ ErrData(r.rc.error) \in msgs

\* C7 (as claimed): getTimetable returns {timetable: []} exactly when the
\* request fails with 'Query not possible' or 'Time table does not exist', and
\* getExams returns the empty list exactly when it fails with 'No exam data
\* available' or 'Query not possible'.
C7_EmptyExactlyOnNoData ==
  \A c \in Callers :
    calls[c].pc = "done" =>
      /\ calls[c].inv.op = "getTimetable" =>
           (calls[c].out = Return(EmptyTimetable)
              <=> FailedWith(calls[c], {QueryNotPossible, TimeTableDoesNotExist}))
      /\ calls[c].inv.op = "getExams" =>
           (calls[c].out = Return(EmptyArr)
              <=> FailedWith(calls[c], {NoExamData, QueryNotPossible}))

\* C7 (amended): as claimed for getTimetable; getExams returns the empty list
\* when the request fails with one of its two 'no data' errors and also when
\* the response (fresh or cached) is itself the empty list.  Any other request
\* failure is rethrown as it is, and no request failure writes to the cache,
\* so that the key stays a miss.
C7_NoDataErrorsBecomeEmpty ==
  [][\A c \in Callers :
       (calls[c].pc # "done" /\ calls'[c].pc = "done") =>
         LET r == calls'[c]
             noTimetable == {QueryNotPossible, TimeTableDoesNotExist}
             noExams == {NoExamData, QueryNotPossible}
         IN /\ r.inv.op = "getTimetable" =>
                 /\ r.out = Return(EmptyTimetable) <=> FailedWith(r, noTimetable)
                 /\ (r.rc.kind = "throw" /\ ~FailedWith(r, noTimetable)) => r.out = r.rc
            /\ r.inv.op = "getExams" =>
                 /\ r.out = Return(EmptyArr)
                      <=> (FailedWith(r, noExams) \/ r.rc = Return(EmptyArr))
                 /\ (r.rc.kind = "throw" /\ ~FailedWith(r, noExams)) => r.out = r.rc
            /\ (r.inv.op \in {"getTimetable", "getExams"} /\ r.rc.kind = "throw") =>
                 /\ cache' = cache
                 /\ r.sent = 1
                 /\ cache = r.snap => ~Truthy(cacheGet(cache', CacheKey(r.inv)))]_vars

\* getExams has turned 'Query not possible' into the empty list
C7_Witness ==
  \E c \in Callers :
    /\ calls[c].pc = "done"
    /\ calls[c].inv.op = "getExams"
    /\ FailedWith(calls[c], {QueryNotPossible})
    /\ calls[c].out = Return(EmptyArr)
    /\ CacheKey(calls[c].inv) \notin DOMAIN cache

\* C8: two overlapping requestCached calls under one uncached key each issue a
\* request; the entry holds the response of the one that completed last when
\* both succeed, and that of the successful one when exactly one succeeds.
C8_LastCompletionWins ==
  \A c \in Callers :
    (calls[c].pc = "done" /\ calls[c].peer # None) =>
      LET r == calls[c]
          entry == cacheGet(cache, CacheKey(r.inv))
      IN /\ r.sent = 1
         /\ ~r.hit
         /\ (r.rc.kind = "return") => entry = r.rc.value
         /\ (r.rc.kind = "throw" /\ r.peer.kind = "return") => entry = r.peer.value
         /\ (r.rc.kind = "throw" /\ r.peer.kind = "throw") =>
              entry = cacheGet(r.snap, CacheKey(r.inv))

\* both overlapping calls have succeeded, with different responses
C8_Witness ==
  \E c \in Callers :
    /\ calls[c].pc = "done"
    /\ calls[c].peer.kind = "return"
    /\ calls[c].rc.kind = "return"
    /\ Truthy(calls[c].peer.value)
    /\ calls[c].rc.value # calls[c].peer.value

\* C9: a response returned from the cache was stored by the same request (the
\* same method with the same request parameters); getFaculty and getSpoName
\* use the entry of getPersonalData; getImprint neither reads nor writes the
\* cache.
C9_KeysIsolateRequests ==
  \A c \in Callers :
    calls[c].pc = "done" =>
      LET r == calls[c]
      IN /\ r.hit => (IsCached(r.inv) /\ origin[CacheKey(r.inv)] = Params(r.inv))
         /\ r.inv.op \in {"getPersonalData", "getFaculty", "getSpoName"} =>
              (r.hit <=> Truthy(cacheGet(r.snap, KEY_GET_PERSONAL_DATA)))
         /\ r.inv.op = "getImprint" => (~r.hit /\ r.sent = 1 /\ cache = r.snap)

\* a timetable was returned from the cache, stored by a call at another time
\* of the same day
C9_Witness ==
  /\ calls["c1"].pc = "done"
  /\ calls["c1"].hit
  /\ calls["c1"].inv.op = "getTimetable"
  /\ calls["c1"].inv.date.hours = 20
  /\ calls["c1"].inv.detailed

(***************************************************************************)
(* Properties of the GraphQL client and of the pages.                      *)
(***************************************************************************)

\* C5: the GraphQL client neither caches nor retries: every call of a query
\* method has issued exactly one request, also for a query answered before; a
\* failed request makes the call fail with 'GraphQL query failed' after one
\* console.error, a successful one makes it return the data unchanged.
C5_OneRequestPerQuery ==
  \A sl \in GqlSlots :
    /\ queries[sl].pc = "awaiting" => queries[sl].sent = 1
    /\ queries[sl].pc = "done" =>
         /\ queries[sl].sent = 1
         /\ queries[sl].got.kind = "failure" =>
              (queries[sl].out = Throw(GraphQLQueryFailed) /\ queries[sl].logged = 1)
         /\ queries[sl].got.kind = "data" =>
              (queries[sl].out = Return(queries[sl].got.data) /\ queries[sl].logged = 0)
         /\ queries[sl].got.kind \in {"failure", "data"}

\* a query that was answered before is asked again and its request has failed
C5_Witness ==
  /\ queries["app"].pc = "done"
  /\ queries["app"].got.kind = "failure"
  /\ queries["app"].query \in answered
  /\ queries["app"].query = getCampusLifeEvents

\* the query of EventsCard's load() fails in this step
CardLoadFails ==
  /\ queries["card"].pc = "awaiting"
  /\ queries'["card"].pc = "done"
  /\ queries'["card"].got.kind = "failure"

\* loadFoodEntries of load slot l fails in this step
MensaLoadFails(l) ==
  /\ mensaLoads[l].pc = "pending"
  /\ mensaLoads'[l].pc = "done"
  /\ mensaLoads'[l].got = "reject"

\* C6: a failed load is caught and logged and changes no UI state: the
\* calendar of EventsCard, and currentFoodDays, futureFoodDays and currentDay
\* of the meal-plan page keep their values (a page that was not ready stays
\* not ready), and load() does not fail.
C6_FailedLoadChangesNothing ==
  [][/\ CardLoadFails =>
          /\ calendar' = calendar
          /\ queries'["card"].cardLogged = 1
          /\ queries'["card"].load = Return(Undefined)
     /\ \A l \in LoadSlots :
          MensaLoadFails(l) =>
            /\ currentFoodDays' = currentFoodDays
            /\ futureFoodDays' = futureFoodDays
            /\ currentDay' = currentDay
            /\ ~Ready => ~Ready'
            /\ mensaLoads'[l].logged = 1
            /\ mensaLoads'[l].load = Return(Undefined)]_vars

\* a load of the meal-plan page has failed after an earlier one had set the
\* state, and a load of EventsCard has set the calendar
C6_Witness ==
  /\ \E l \in LoadSlots :
       /\ mensaLoads[l].pc = "done"
       /\ mensaLoads[l].got = "reject"
  /\ Ready
  /\ currentDay # 0
  /\ calendar # EmptyArr

\* the first load of the meal-plan page has failed: the placeholder stays
C6_WitnessFirstLoad ==
  /\ loadsStarted = 1
  /\ mensaLoads["l1"].pc = "done"
  /\ mensaLoads["l1"].got = "reject"
  /\ ~Ready

\* the lists of the block of restaurant r, if it is rendered
ListsOf(r) ==
  LET secs == SelectSeq(rendered.sections, LAMBDA sec : sec.header = r)
  IN IF Len(secs) = 0 THEN <<>> ELSE secs[1].lists

\* how many entries of a list are the meal m
InList(list, m) == Cardinality({i \in 1 .. Len(list.meals) : list.meals[i] = m})

RECURSIVE InLists(_, _)
\* how many entries of the lists are the meal m
InLists(lists, m) ==
  IF Len(lists) = 0 THEN 0 ELSE InList(Head(lists), m) + InLists(Tail(lists), m)

FourRestaurants == {"IngolstadtMensa", "NeuburgMensa", "Reimanns", "Canisius"}

\* C10 (as claimed): every meal of IngolstadtMensa, NeuburgMensa, Reimanns or
\* Canisius is rendered in exactly one list under its restaurant's header, and
\* the 'data unavailable' notice is shown iff the day has no such meal.
C10_EveryMealRenderedOnce ==
  rendered # None =>
    /\ \A i \in 1 .. Len(day.meals) :
         day.meals[i].restaurant \in FourRestaurants =>
           InLists(ListsOf(day.meals[i].restaurant), day.meals[i]) = 1
    /\ rendered.noData <=>
         (\A i \in 1 .. Len(day.meals) : day.meals[i].restaurant \notin FourRestaurants)


(***************************************************************************)
(* Properties of the meal entries.                                         *)
(***************************************************************************)

\* C11: showMatch(meal) is true iff the meal contains a selected allergen or
\* matches a selected preference; the warn badge and the match badge are never
\* rendered together, the warn badge being the one rendered when both apply;
\* the line break is rendered exactly when one of the two badges is.
C11_MatchAndBadges ==
  mealEntry # None =>
    LET a == containsSelectedAllergen(meal.allergens, allergenSelection)
        p == containsSelectedPreference(meal.flags, preferencesSelection)
    IN /\ mealEntry.showMatch = (a \/ p)
       /\ ~(mealEntry.warn /\ mealEntry.match)
       /\ mealEntry.warn = a
       /\ mealEntry.match = (p /\ ~a)
       /\ mealEntry.br = (mealEntry.warn \/ mealEntry.match)

\* a meal with a selected allergen and a selected preference has been rendered
C11_Witness ==
  /\ mealEntry # None
  /\ containsSelectedAllergen(meal.allergens, allergenSelection)
  /\ containsSelectedPreference(meal.flags, preferencesSelection)
  /\ mealEntry.warn
  /\ mealEntry.br

(***************************************************************************)
(* Properties of the week selector and the day tabs.                       *)
(***************************************************************************)

\* a load() whose loadFoodEntries resolves runs to its end in this step
LoadSucceeds ==
  \E l \in LoadSlots :
    /\ mensaLoads[l].pc = "pending"
    /\ mensaLoads'[l].pc = "done"
    /\ mensaLoads'[l].got = "resolve"

C12_Step ==
  /\ week' # week => (currentDay' = currentDay /\ futureDay' = futureDay)
  /\ currentDay' # currentDay => (week' = week /\ futureDay' = futureDay)
  /\ futureDay' # futureDay => (week' = week /\ currentDay' = currentDay)
  /\ \A tab \in WeekTabs, key \in EventKeys :
       WeekTabSelect(tab, key) =>
         /\ week' = week
         /\ tab = 0 => (currentDay' = parseInt(key) /\ futureDay' = futureDay)
         /\ tab = 1 => (futureDay' = parseInt(key) /\ currentDay' = currentDay)
  /\ \A tab \in WeekTabs, idx \in 0 .. 9 :
       WeekTabSwipe(tab, idx) =>
         /\ week' = week
         /\ tab = 0 => (currentDay' = idx /\ futureDay' = futureDay)
         /\ tab = 1 => (futureDay' = idx /\ currentDay' = currentDay)
  /\ \A l \in LoadSlots, today \in Todays :
       MensaLoadSettle(l, "resolve", today) =>
         (currentDay' = today /\ week' = week /\ futureDay' = futureDay)
  /\ LoadSucceeds => (currentDay' \in Todays /\ week' = week /\ futureDay' = futureDay)

\* C12: the selected week is always 0 or 1, the previous-week button is
\* disabled exactly when week = 0 and the next-week button exactly when
\* week = 1; a step that changes the week leaves currentDay and futureDay
\* unchanged, selecting a day in a week's tab changes only that week's day
\* index, and a successful load sets currentDay to today's index and leaves
\* week and futureDay unchanged.
C12_WeekAndDayIndependent ==
  /\ [](/\ week \in {0, 1}
        /\ prevWeekDisabled(week) <=> (week = 0)
        /\ nextWeekDisabled(week) <=> (week = 1))
  /\ [][C12_Step]_vars

\* the second week is shown with its second day selected, the first week's
\* selection differing from it, and a reload has succeeded since
C12_Witness ==
  /\ week = 1
  /\ futureDay = 1
  /\ currentDay = 3
  /\ loadsStarted = 2
  /\ latest.got = "resolve"

(***************************************************************************)
(* Properties of extractFacultyFromPersonalData.                           *)
(***************************************************************************)

\* C13: extractFacultyFromPersonalData returns null when the data, its
\* persdata, or both stg and po_url are missing; otherwise it returns, without
\* an error, the faculty whose poKey is the third-from-last segment of po_url
\* when there is one, and else the faculty whose courses contain stg; data
\* with stg but no po_url yields the faculty matched by stg.  '_source' is
\* never returned.
C13_FacultyFromPersonalData ==
  facOut # None =>
    LET persdata == Field(facData, "persdata")
        stg == Field(persdata, "stg")
        po_url == Field(persdata, "po_url")
        byStg == FindFaculty(LAMBDA f : stg.t = "string" /\ stg.s \in f.courses)
        byPo == IF po_url.t = "text"
                  THEN FindFaculty(LAMBDA f : f.poKey = ThirdFromLast(SplitPath(po_url.a)))
                  ELSE Undefined
    IN IF ~Truthy(facData) \/ ~Truthy(persdata) \/ (~TextTruthy(stg) /\ ~TextTruthy(po_url))
         THEN facOut = Return(Null)
         ELSE /\ facOut.kind = "return"
              /\ facOut = Return(IF Truthy(byPo) THEN byPo ELSE byStg)
              /\ facOut # Return(Str("_source"))

(***************************************************************************)
(* Properties of overlapping loads of the meal-plan page.                  *)
(***************************************************************************)

\* C14: once no loadFoodEntries call is pending and the load started for the
\* most recent selection has succeeded, currentFoodDays and futureFoodDays
\* hold the first five days and the remaining days of the entries of that
\* selection, whatever the order in which the loads completed.
C14_LatestSelectionWins ==
  ((\A l \in LoadSlots : mensaLoads[l].pc # "pending") /\ latest.got = "resolve") =>
    LET days == FoodEntries(filter)
    IN /\ currentFoodDays = Slice(days, 0, 5)
       /\ futureFoodDays = Slice(days, 5, Len(days.v))

(***************************************************************************)
(* Properties of TheMatrixAnimation.                                       *)
(***************************************************************************)

\* every column position is a non-negative multiple of 20, and there are
\* floor(width / 20) + 1 columns, as many as were created
C15_WellFormed ==
  /\ inits <= 1
  /\ (canvas = Null) <=> (ypos = Null)
  /\ (canvas = Null) <=> (inits = 0)
  /\ ypos # Null =>
       /\ Len(ypos.v) = (canvas.width \div 20) + 1
       /\ Len(ypos.v) = Len(created.v)
       /\ \A i \in 1 .. Len(created.v) : created.v[i] = 0
       /\ \A i \in 1 .. Len(ypos.v) : ypos.v[i] >= 0 /\ ypos.v[i] % 20 = 0

C15_Step ==
  /\ (canvas = Null /\ canvas' = Null) => UNCHANGED <<ypos, created, inits>>
  /\ (canvas = Null /\ canvasId = Null) => canvas' = Null
  /\ (canvas = Null /\ canvas' # Null) =>
       /\ created' = Arr([i \in 1 .. ((innerWidth \div 20) + 1) |-> 0])
       /\ frames' = 301
       /\ inits' = 1
       /\ lastTick' = "init"
  /\ canvas # Null =>
       /\ canvas' = canvas
       /\ created' = created
       /\ inits' = inits
       /\ lastTick' # "init"
       /\ Len(ypos'.v) = Len(ypos.v)
       /\ ypos' # ypos =>
            /\ frames' = 1
            /\ \A i \in 1 .. Len(ypos.v) :
                 \/ ypos'.v[i] = ypos.v[i] + 20
                 \/ ypos'.v[i] = 0 /\ ypos.v[i] > 100

====
